---- MODULE Spec2Model ----
(***************************************************************************)
(* Model of polyhedral_volume/polyhedral_volume.py: class PolyhedralVolume *)
(* (tetrahedron, octahedron, cubic, _calc_center_of_gravity and            *)
(* _trans_periodic_coords) over a structure that supplies Cartesian and    *)
(* fractional coordinates.                                                 *)
(*                                                                         *)
(* Python floats are modelled as exact rationals [num, den] in lowest      *)
(* terms with den > 0; numpy arrays of shape (3,) as 3-tuples of them.     *)
(* Rounding of IEEE doubles is not modelled.                               *)
(***************************************************************************)
EXTENDS Integers, Sequences, FiniteSets, TLC

(* ------------------------------ bounds -------------------------------- *)

\* The cube structures have the sides 1..MaxScale.
MaxScale == 2

\* Lists of atom indices are runs start, start+1, ... of 0..MaxSites indices.
MaxSites == 9

\* An entry of a triangulation map of an N-vertex cluster ranges over
\* -N-IdxSlack .. N-1+IdxSlack.
IdxSlack == 1

\* Fractional components of the structures handed to _trans_periodic_coords
\* range over the quarters -MaxQuarter/4 .. MaxQuarter/4.
MaxQuarter == 7

(* ------------------------- program constants -------------------------- *)

TetrahedronSize == 4
OctahedronSize == 6
CubicSize == 8

(* ------------------------- exact real numbers ------------------------- *)

Abs(n) == IF n < 0 THEN -n ELSE n

RECURSIVE Gcd(_, _)
Gcd(a, b) == IF b = 0 THEN a ELSE Gcd(b, a % b)

Rat(n, d) ==
    LET s == IF d < 0 THEN -1 ELSE 1
        g == Gcd(Abs(n), Abs(d))
    IN  [num |-> (s * n) \div g, den |-> (s * d) \div g]

FromInt(n) == [num |-> n, den |-> 1]
Zero == FromInt(0)
Half == Rat(1, 2)

RAdd(p, q) == Rat(p.num * q.den + q.num * p.den, p.den * q.den)
RSub(p, q) == Rat(p.num * q.den - q.num * p.den, p.den * q.den)
RMul(p, q) == Rat(p.num * q.num, p.den * q.den)
RDivInt(p, n) == Rat(p.num, p.den * n)
RAbs(p) == [num |-> Abs(p.num), den |-> p.den]
RLess(p, q) == p.num * q.den < q.num * p.den
RLeq(p, q) == p.num * q.den <= q.num * p.den

(* --------------------------- numpy arrays ----------------------------- *)

Vec(x, y, z) == <<FromInt(x), FromInt(y), FromInt(z)>>
VZero == Vec(0, 0, 0)
VAdd(u, v) == <<RAdd(u[1], v[1]), RAdd(u[2], v[2]), RAdd(u[3], v[3])>>
VSub(u, v) == <<RSub(u[1], v[1]), RSub(u[2], v[2]), RSub(u[3], v[3])>>
VScale(u, n) == <<RMul(u[1], FromInt(n)), RMul(u[2], FromInt(n)), RMul(u[3], FromInt(n))>>
VDivInt(u, n) == <<RDivInt(u[1], n), RDivInt(u[2], n), RDivInt(u[3], n)>>

\* Variant of det: the middle cofactor is added instead of subtracted.
det_middle_sign(m) ==
    LET minor(i, j, k, l) == RSub(RMul(m[2][i], m[3][j]), RMul(m[2][k], m[3][l]))
    IN  RAdd(RAdd(RMul(m[1][1], minor(2, 3, 3, 2)),
                  RMul(m[1][2], minor(1, 3, 3, 1))),
             RMul(m[1][3], minor(1, 2, 2, 1)))

\* numpy.linalg.det of the 3x3 array whose rows are m[1], m[2], m[3].
det(m) ==
    LET minor(i, j, k, l) == RSub(RMul(m[2][i], m[3][j]), RMul(m[2][k], m[3][l]))
    IN  RAdd(RSub(RMul(m[1][1], minor(2, 3, 3, 2)),
                  RMul(m[1][2], minor(1, 3, 3, 1))),
             RMul(m[1][3], minor(1, 2, 2, 1)))

\* Python's seq[i]: 0-based, a negative i counts from the end.
InRange(seq, i) == -Len(seq) <= i /\ i < Len(seq)
Item(seq, i) == IF i < 0 THEN seq[Len(seq) + i + 1] ELSE seq[i + 1]

(* ------------------------ outcome of one call ------------------------- *)

\* status "ok": the call returned value.  Otherwise the exception raised.
\* resolved, centroids, tetrahedra count the provider lookups, centroid
\* computations and accumulated tetrahedron volumes performed by the call.
Outcome(status, value, resolved, centroids, tetrahedra) ==
    [status |-> status, value |-> value, resolved |-> resolved,
     centroids |-> centroids, tetrahedra |-> tetrahedra]

Return(value) == Outcome("ok", value, 0, 0, 0)
Raise(exc) == Outcome(exc, Zero, 0, 0, 0)

(* ----------------------- PolyhedralVolume methods --------------------- *)

\* Variant of tetrahedron: the determinant is divided by 2.
tetrahedron_div2(coords) ==
    IF Len(coords) # TetrahedronSize
    THEN Raise("ValueError")
    ELSE LET ab == VSub(Item(coords, 1), Item(coords, 0))
             ac == VSub(Item(coords, 2), Item(coords, 0))
             ad == VSub(Item(coords, 3), Item(coords, 0))
             array == <<ab, ac, ad>>
         IN  Return(RDivInt(RAbs(det(array)), 2))

\* Variant of tetrahedron: coords[0] is not subtracted from coords[3].
tetrahedron_unshifted_edge(coords) ==
    IF Len(coords) # TetrahedronSize
    THEN Raise("ValueError")
    ELSE LET ab == VSub(Item(coords, 1), Item(coords, 0))
             ac == VSub(Item(coords, 2), Item(coords, 0))
             ad == Item(coords, 3)
             array == <<ab, ac, ad>>
         IN  Return(RDivInt(RAbs(det(array)), 6))

\* Variant of tetrahedron: the sign of the determinant is kept.
tetrahedron_signed(coords) ==
    IF Len(coords) # TetrahedronSize
    THEN Raise("ValueError")
    ELSE LET ab == VSub(Item(coords, 1), Item(coords, 0))
             ac == VSub(Item(coords, 2), Item(coords, 0))
             ad == VSub(Item(coords, 3), Item(coords, 0))
             array == <<ab, ac, ad>>
         IN  Return(RDivInt(det(array), 6))

tetrahedron(coords) ==
    IF Len(coords) # TetrahedronSize
    THEN Raise("ValueError")
    ELSE LET ab == VSub(Item(coords, 1), Item(coords, 0))
             ac == VSub(Item(coords, 2), Item(coords, 0))
             ad == VSub(Item(coords, 3), Item(coords, 0))
             array == <<ab, ac, ad>>
         IN  Return(RDivInt(RAbs(det(array)), 6))

RECURSIVE SumCoords(_, _, _)
SumCoords(coords, i, coords_sum) ==
    IF i > Len(coords) THEN coords_sum
    ELSE SumCoords(coords, i + 1, VAdd(coords_sum, coords[i]))

\* Variant of _calc_center_of_gravity: the sum leaves out coords[0].
_calc_center_of_gravity_skips_first(coords) ==
    [value |-> VDivInt(SumCoords(coords, 2, VZero), Len(coords)),
     coords |-> coords]

\* Variant of _calc_center_of_gravity: coords_sum is coords[0] itself, so the
\* += of the other coordinates writes the sum into the caller's first array.
_calc_center_of_gravity_in_place(coords) ==
    [value |-> VDivInt(SumCoords(coords, 1, VZero), Len(coords)),
     coords |-> [coords EXCEPT ![1] = SumCoords(coords, 1, VZero)]]

\* value: the returned mean; coords: the argument list as the call leaves it
\* (coords_sum is a fresh array, so += never writes into an element of coords).
_calc_center_of_gravity(coords) ==
    [value |-> VDivInt(SumCoords(coords, 1, VZero), Len(coords)),
     coords |-> coords]


(* --------------------------- the structure ---------------------------- *)

\* self.struct: a cubic lattice constant and, per site, the fractional (abc)
\* and the Cartesian coordinates; Cartesian = lattice * fractional.
Structure(lattice, carts) ==
    [lattice |-> lattice,
     abc |-> [i \in DOMAIN carts |-> VDivInt(carts[i], lattice)],
     cart_coords |-> carts]

RECURSIVE ResolveCoords(_, _, _, _)
ResolveCoords(carts, sites, i, coords) ==
    IF i > Len(sites) THEN [status |-> "ok", coords |-> coords]
    ELSE IF ~InRange(carts, sites[i])
         THEN [status |-> "IndexError", coords |-> coords]
         ELSE ResolveCoords(carts, sites, i + 1,
                            Append(coords, Item(carts, sites[i])))

RECURSIVE BuildCoordsList(_, _, _, _)
BuildCoordsList(coords, triangle, j, coords_list) ==
    IF j > Len(triangle) THEN [status |-> "ok", coords_list |-> coords_list]
    ELSE IF ~InRange(coords, triangle[j])
         THEN [status |-> "IndexError", coords_list |-> coords_list]
         ELSE BuildCoordsList(coords, triangle, j + 1,
                              Append(coords_list, Item(coords, triangle[j])))

\* Variant of SumTetrahedra: each tetrahedron volume overwrites volume.
RECURSIVE SumTetrahedra_overwrites(_, _, _, _, _)
SumTetrahedra_overwrites(gravity, coords, sites_position, t, volume) ==
    IF t > Len(sites_position)
    THEN Outcome("ok", volume, Len(coords), 1, t - 1)
    ELSE LET built == BuildCoordsList(coords, sites_position[t], 1, <<gravity>>)
         IN  IF built.status # "ok"
             THEN Outcome(built.status, Zero, Len(coords), 1, t - 1)
             ELSE LET v == tetrahedron(built.coords_list)
                  IN  IF v.status # "ok"
                      THEN Outcome(v.status, Zero, Len(coords), 1, t - 1)
                      ELSE SumTetrahedra_overwrites(gravity, coords, sites_position,
                                                    t + 1, v.value)

RECURSIVE SumTetrahedra(_, _, _, _, _)
SumTetrahedra(gravity, coords, sites_position, t, volume) ==
    IF t > Len(sites_position)
    THEN Outcome("ok", volume, Len(coords), 1, t - 1)
    ELSE LET built == BuildCoordsList(coords, sites_position[t], 1, <<gravity>>)
         IN  IF built.status # "ok"
             THEN Outcome(built.status, Zero, Len(coords), 1, t - 1)
             ELSE LET v == tetrahedron(built.coords_list)
                  IN  IF v.status # "ok"
                      THEN Outcome(v.status, Zero, Len(coords), 1, t - 1)
                      ELSE SumTetrahedra(gravity, coords, sites_position, t + 1,
                                         RAdd(volume, v.value))

octahedron(st, sites, sites_position) ==
    IF Len(sites) # OctahedronSize
    THEN Raise("ValueError")
    ELSE LET res == ResolveCoords(st.cart_coords, sites, 1, <<>>)
         IN  IF res.status # "ok"
             THEN Outcome(res.status, Zero, Len(res.coords), 0, 0)
             ELSE LET gravity == _calc_center_of_gravity(res.coords)
                  IN  SumTetrahedra(gravity.value, gravity.coords,
                                    sites_position, 1, Zero)

\* Variant of cubic: the sites are resolved before their number is checked.
cubic_resolves_first(st, sites, sites_position) ==
    LET res == ResolveCoords(st.cart_coords, sites, 1, <<>>)
    IN  IF res.status # "ok"
        THEN Outcome(res.status, Zero, Len(res.coords), 0, 0)
        ELSE IF Len(sites) # CubicSize
        THEN Outcome("ValueError", Zero, Len(res.coords), 0, 0)
        ELSE LET gravity == _calc_center_of_gravity(res.coords)
             IN  SumTetrahedra(gravity.value, gravity.coords,
                               sites_position, 1, Zero)

cubic(st, sites, sites_position) ==
    IF Len(sites) # CubicSize
    THEN Raise("ValueError")
    ELSE LET res == ResolveCoords(st.cart_coords, sites, 1, <<>>)
         IN  IF res.status # "ok"
             THEN Outcome(res.status, Zero, Len(res.coords), 0, 0)
             ELSE LET gravity == _calc_center_of_gravity(res.coords)
                  IN  SumTetrahedra(gravity.value, gravity.coords,
                                    sites_position, 1, Zero)

\* One fractional component through the if / elif / else of lines 185-190
\* (line 189 is written "else" without its colon; the branch is modelled as
\* the pass it spells).
TransComponent(x) ==
    IF RLess(Half, x) THEN RSub(x, FromInt(1))
    ELSE IF RLess(x, RSub(Zero, Half)) THEN RAdd(x, FromInt(1))
    ELSE x

\* Sites are rewritten one by one, so a site index that does not resolve
\* leaves the sites before it already rewritten.
RECURSIVE _trans_periodic_coords(_, _, _)
_trans_periodic_coords(st, sites, i) ==
    IF i > Len(sites) THEN [ret |-> Return(Zero), struct |-> st]
    ELSE IF ~InRange(st.abc, sites[i])
         THEN [ret |-> Raise("IndexError"), struct |-> st]
         ELSE LET k == IF sites[i] < 0 THEN Len(st.abc) + sites[i] + 1
                       ELSE sites[i] + 1
                  abc == st.abc[k]
                  moved == <<TransComponent(abc[1]), TransComponent(abc[2]),
                             TransComponent(abc[3])>>
              IN  _trans_periodic_coords(
                    [st EXCEPT !.abc[k] = moved,
                               !.cart_coords[k] = VScale(moved, st.lattice)],
                    sites, i + 1)

(* ------------------------------ inputs -------------------------------- *)

CubeCarts(s) ==
    [i \in 1..8 |-> Vec(s * (((i - 1) \div 4) % 2), s * (((i - 1) \div 2) % 2),
                        s * ((i - 1) % 2))]

OctaCarts(s) ==
    <<Vec(s, 0, 0), Vec(-s, 0, 0), Vec(0, s, 0), Vec(0, -s, 0),
      Vec(0, 0, s), Vec(0, 0, -s), Vec(s, s, s), Vec(0, 0, 0)>>

SkewCarts(s) ==
    <<Vec(0, 0, 0), Vec(s, 0, 0), Vec(2 * s, 0, 0), Vec(3 * s, 0, 0),
      Vec(0, 2 * s, s), Vec(s, s, 3 * s), Vec(2 * s, 3 * s, s), Vec(-s, s, 2 * s)>>

Structures ==
    {Structure(2, CubeCarts(s)) : s \in 1..MaxScale}
    \cup {Structure(2, OctaCarts(1)), Structure(2, SkewCarts(1))}

PeriodicStructures ==
    {[lattice |-> 4,
      abc |-> <<<<Rat(x, 4), Rat(y, 4), Rat(z, 4)>>,
                <<Rat(6, 4), Rat(-2, 4), Rat(1, 4)>>>>,
      cart_coords |-> <<Vec(x, y, z), Vec(6, -2, 1)>>] :
        x \in -MaxQuarter..MaxQuarter, y \in -MaxQuarter..MaxQuarter,
        z \in -MaxQuarter..MaxQuarter}

Window(start, n) == [i \in 1..n |-> start + i - 1]

\* A start of -1 gives a negative index, which counts from the end; a run that
\* passes the last atom holds an index that does not resolve.
SitesLists == {Window(start, n) : start \in -1..1, n \in 0..MaxSites}

\* Faces of the octahedron whose sites are +x, -x, +y, -y, +z, -z.
OctaFaces ==
    <<<<0, 2, 4>>, <<0, 2, 5>>, <<0, 3, 4>>, <<0, 3, 5>>,
      <<1, 2, 4>>, <<1, 2, 5>>, <<1, 3, 4>>, <<1, 3, 5>>>>

\* The square faces of the cube of CubeCarts, each in cyclic order.
CubeQuads ==
    <<<<0, 1, 3, 2>>, <<4, 5, 7, 6>>, <<0, 1, 5, 4>>,
      <<2, 3, 7, 6>>, <<0, 2, 6, 4>>, <<1, 3, 7, 5>>>>

\* 12 triples: quad f is split along one diagonal or the other as diag[f] says.
CubeTriangulation(diag) ==
    [t \in 1..12 |->
        LET q == CubeQuads[(t + 1) \div 2]
            first == (t % 2 = 1)
        IN  IF diag[(t + 1) \div 2] = 0
            THEN IF first THEN <<q[1], q[2], q[3]>> ELSE <<q[1], q[3], q[4]>>
            ELSE IF first THEN <<q[2], q[3], q[4]>> ELSE <<q[2], q[4], q[1]>>]

CubeTriangulations == {CubeTriangulation(diag) : diag \in [1..6 -> {0, 1}]}

CubeFaces == CubeTriangulation([f \in 1..6 |-> 0])

\* Maps tried on an N-vertex cluster: every prefix of faces, and every prefix
\* whose last triple has one entry replaced, has lost its last entry or has
\* gained a fourth.
Maps(faces, N) ==
    LET prefix(n) == SubSeq(faces, 1, n)
        idx == (-N - IdxSlack)..(N - 1 + IdxSlack)
    IN  {prefix(n) : n \in 0..Len(faces)}
        \cup {[prefix(n) EXCEPT ![n][q] = v] :
                n \in 1..Len(faces), q \in 1..3, v \in idx}
        \cup {[prefix(n) EXCEPT ![n] = SubSeq(faces[n], 1, 2)] : n \in 1..Len(faces)}
        \cup {[prefix(n) EXCEPT ![n] = Append(faces[n], 0)] : n \in 1..Len(faces)}

OctahedronMaps == Maps(OctaFaces, OctahedronSize)
CubicMaps == Maps(CubeFaces, CubicSize) \cup CubeTriangulations

Args(coords, sites, sites_position) ==
    [coords |-> coords, sites |-> sites, sites_position |-> sites_position]

NoArgs == Args(<<>>, <<>>, <<>>)

\* The coordinate lists a caller builds from the structure: every 4 sites, and
\* every run of sites that resolves.
CoordLists(st) ==
    LET carts == st.cart_coords
    IN  {[i \in 1..TetrahedronSize |-> carts[f[i]]] :
            f \in [1..TetrahedronSize -> DOMAIN carts]}
        \cup {ResolveCoords(carts, sites, 1, <<>>).coords :
                sites \in {l \in SitesLists : \A i \in DOMAIN l : InRange(carts, l[i])}}

(* --------------------------- state machine ---------------------------- *)

VARIABLES
    struct,     \* self.struct
    pc,         \* the caller: "idle", "returned" (a call has ended), "repeated"
    op,         \* the method last called
    input,      \* its arguments as passed
    post,       \* its arguments as the call left them
    ret,        \* its outcome
    prev        \* at "repeated": the outcome of the first of the two calls

vars == <<struct, pc, op, input, post, ret, prev>>

NoOutcome == Raise("none")

\* One call of a method on structure st: its outcome, its arguments and the
\* structure as the call leaves them.
Invoke(name, st, args) ==
    CASE name = "tetrahedron" ->
            [ret |-> tetrahedron(args.coords), post |-> args, struct |-> st]
      [] name = "_calc_center_of_gravity" ->
            LET g == _calc_center_of_gravity(args.coords)
            IN  [ret |-> Return(g.value),
                 post |-> [args EXCEPT !.coords = g.coords], struct |-> st]
      [] name = "octahedron" ->
            [ret |-> octahedron(st, args.sites, args.sites_position),
             post |-> args, struct |-> st]
      [] name = "cubic" ->
            [ret |-> cubic(st, args.sites, args.sites_position),
             post |-> args, struct |-> st]
      [] name = "_trans_periodic_coords" ->
            LET r == _trans_periodic_coords(st, args.sites, 1)
            IN  [ret |-> r.ret, post |-> args, struct |-> r.struct]

Start(name, args) ==
    /\ \E r \in {Invoke(name, struct, args)} :
           /\ struct' = r.struct
           /\ post' = r.post
           /\ ret' = r.ret
    /\ pc' = "returned"
    /\ op' = name
    /\ input' = args
    /\ prev' = NoOutcome

Idle ==
    /\ pc = "idle"
    /\ op = "none"
    /\ input = NoArgs
    /\ post = NoArgs
    /\ ret = NoOutcome
    /\ prev = NoOutcome

Init == struct \in Structures /\ Idle

InitPeriodic == struct \in PeriodicStructures /\ Idle

Tetrahedron ==
    /\ pc = "idle"
    /\ \E coords \in CoordLists(struct) :
        Start("tetrahedron", Args(coords, <<>>, <<>>))

CalcCenterOfGravity ==
    /\ pc = "idle"
    /\ \E coords \in {l \in CoordLists(struct) : Len(l) > 0} :
        Start("_calc_center_of_gravity", Args(coords, <<>>, <<>>))

Octahedron ==
    /\ pc = "idle"
    /\ \E sites \in SitesLists, sites_position \in OctahedronMaps :
        Start("octahedron", Args(<<>>, sites, sites_position))

Cubic ==
    /\ pc = "idle"
    /\ \E sites \in SitesLists, sites_position \in CubicMaps :
        Start("cubic", Args(<<>>, sites, sites_position))

TransPeriodicCoords ==
    /\ pc = "idle"
    /\ \E sites \in {Window(start, n) : start \in 0..1, n \in 0..2} :
        Start("_trans_periodic_coords", Args(<<>>, sites, <<>>))

\* The caller makes the same call again, with the arguments and the structure
\* as the first call left them.
Repeat ==
    /\ pc = "returned"
    /\ \E r \in {Invoke(op, struct, post)} :
           /\ struct' = r.struct
           /\ post' = r.post
           /\ ret' = r.ret
    /\ prev' = ret
    /\ pc' = "repeated"
    /\ UNCHANGED <<op, input>>

\* The caller drops the call's transient values.
Release ==
    /\ pc \in {"returned", "repeated"}
    /\ pc' = "idle"
    /\ op' = "none"
    /\ input' = NoArgs
    /\ post' = NoArgs
    /\ ret' = NoOutcome
    /\ prev' = NoOutcome
    /\ UNCHANGED struct

Next ==
    \/ Tetrahedron
    \/ CalcCenterOfGravity
    \/ Octahedron
    \/ Cubic
    \/ Repeat
    \/ Release

Spec == Init /\ [][Next]_vars

NextTet == Tetrahedron \/ Release

SpecTet == Init /\ [][NextTet]_vars

NextPeriodic == TransPeriodicCoords \/ Release

SpecPeriodic == InitPeriodic /\ [][NextPeriodic]_vars


(* ------------------------------ claims -------------------------------- *)

Ended == pc \in {"returned", "repeated"}

Called(name) == Ended /\ op = name

\* The integer scalar triple product (b-a) . ((c-a) x (d-a)) of four
\* coordinates with integer components.
TripleProduct(c) ==
    LET a == [i \in 1..4 |-> [k \in 1..3 |-> c[i][k].num]]
        u == [k \in 1..3 |-> a[2][k] - a[1][k]]
        v == [k \in 1..3 |-> a[3][k] - a[1][k]]
        w == [k \in 1..3 |-> a[4][k] - a[1][k]]
    IN  u[1] * (v[2] * w[3] - v[3] * w[2])
        + u[2] * (v[3] * w[1] - v[1] * w[3])
        + u[3] * (v[1] * w[2] - v[2] * w[1])

IntegerCoords(c) == \A i \in DOMAIN c : \A k \in 1..3 : c[i][k].den = 1

\* C1: tetrahedron of exactly 4 coordinates returns |det([b-a, c-a, d-a])| / 6:
\* over integer coordinates, 6 times the result is the absolute value of the
\* integer scalar triple product (b-a) . ((c-a) x (d-a)).
C1_TetrahedronIsTripleProduct ==
    (Called("tetrahedron") /\ Len(input.coords) = 4 /\ IntegerCoords(input.coords))
        => /\ ret.status = "ok"
           /\ RMul(ret.value, FromInt(6)) = FromInt(Abs(TripleProduct(input.coords)))

\* A tetrahedron call on the corner tetrahedron of the unit cube returned 1/6.
C1_Witness ==
    /\ Called("tetrahedron")
    /\ input.coords = <<Vec(0, 0, 0), Vec(1, 0, 0), Vec(0, 1, 0), Vec(0, 0, 1)>>
    /\ ret.status = "ok"
    /\ ret.value = Rat(1, 6)

NoPartialWork(r) ==
    r.status = "ValueError" /\ r.resolved = 0 /\ r.centroids = 0 /\ r.tetrahedra = 0

\* C2: tetrahedron with a list of length other than 4, octahedron with a sites
\* list of length other than 6 and cubic with a sites list of length other
\* than 8 end in ValueError, with no coordinate resolved, no centroid computed
\* and no tetrahedron volume accumulated, whatever the lists hold.
C2_WrongSizeRaisesFirst ==
    /\ (Called("tetrahedron") /\ Len(input.coords) # 4) => NoPartialWork(ret)
    /\ (Called("octahedron") /\ Len(input.sites) # 6) => NoPartialWork(ret)
    /\ (Called("cubic") /\ Len(input.sites) # 8) => NoPartialWork(ret)

\* cubic was called with 6 sites that all resolve and a full 12-triple map,
\* and raised ValueError.
C2_Witness ==
    /\ Called("cubic")
    /\ input.sites = Window(0, 6)
    /\ input.sites_position = CubeFaces
    /\ ret.status = "ValueError"

ClusterSize(name) == IF name = "octahedron" THEN 6 ELSE 8

HasEntryOutside(sites_position, N) ==
    \E t \in DOMAIN sites_position :
        \E j \in DOMAIN sites_position[t] : sites_position[t][j] \notin 0..(N - 1)

ValidSites(st, sites) == \A i \in DOMAIN sites : sites[i] \in 0..(Len(st.cart_coords) - 1)

ValidMap(sites_position, N) ==
    \A t \in DOMAIN sites_position :
        /\ Len(sites_position[t]) = 3
        /\ \A j \in 1..3 : sites_position[t][j] \in 0..(N - 1)

\* The sum over the triples (i, j, k) of the map, in order, of
\* tetrahedron([g, v_i, v_j, v_k]).
RECURSIVE FanSum(_, _, _, _)
FanSum(g, v, sites_position, t) ==
    IF t > Len(sites_position) THEN Zero
    ELSE LET tri == sites_position[t]
             rest == FanSum(g, v, sites_position, t + 1)
         IN  RAdd(tetrahedron(<<g, v[tri[1] + 1], v[tri[2] + 1], v[tri[3] + 1]>>).value,
                  rest)

\* C4: octahedron of 6 valid atom indices and a map over positions 0..5
\* returns the sum over the map's triples of tetrahedron([g, v_i, v_j, v_k]),
\* v_p the Cartesian coordinate of sites[p] and g the component-wise mean of
\* all six v_0..v_5.
C4_OctahedronIsFanSum ==
    (Called("octahedron") /\ Len(input.sites) = 6 /\ ValidSites(struct, input.sites)
        /\ ValidMap(input.sites_position, 6))
        => LET v == [p \in 1..6 |-> struct.cart_coords[input.sites[p] + 1]]
               total == VAdd(VAdd(VAdd(v[1], v[2]), VAdd(v[3], v[4])), VAdd(v[5], v[6]))
               g == <<RDivInt(total[1], 6), RDivInt(total[2], 6), RDivInt(total[3], 6)>>
           IN  /\ ret.status = "ok"
               /\ ret.value = FanSum(g, v, input.sites_position, 1)

\* octahedron on the regular octahedron (+-1,0,0), (0,+-1,0), (0,0,+-1) with
\* its 8 faces returned 4/3.
C4_Witness ==
    /\ Called("octahedron")
    /\ struct.cart_coords = OctaCarts(1)
    /\ input.sites = Window(0, 6)
    /\ input.sites_position = OctaFaces
    /\ ret.status = "ok"
    /\ ret.value = Rat(4, 3)

\* C5: cubic on the 8 corners of the cube of side s (s = 1: the unit cube,
\* s = 2: the cube {0,2}^3), with any map of 12 triples that splits each of
\* the 6 square faces into 2 triangles, returns exactly s^3.
C5_CubeVolume ==
    \A s \in 1..MaxScale :
        (Called("cubic") /\ struct.cart_coords = CubeCarts(s)
            /\ input.sites = Window(0, 8)
            /\ input.sites_position \in CubeTriangulations)
            => (ret.status = "ok" /\ ret.value = FromInt(s * s * s))

\* cubic on the unit cube returned 1 for a triangulation that splits the six
\* faces along diagonals of both kinds.
C5_Witness ==
    /\ Called("cubic")
    /\ struct.cart_coords = CubeCarts(1)
    /\ input.sites = Window(0, 8)
    /\ input.sites_position = CubeTriangulation(<<0, 1, 0, 1, 1, 0>>)
    /\ ret.status = "ok"
    /\ ret.value = FromInt(1)

Permutations4 ==
    {p \in [1..4 -> 1..4] : \A i, j \in 1..4 : i # j => p[i] # p[j]}

\* C6: for each of the 24 permutations of a list of 4 coordinates, tetrahedron
\* returns for the permuted list the value it returns for the list.
C6_TetrahedronPermutationInvariant ==
    (Called("tetrahedron") /\ Len(input.coords) = 4)
        => \A p \in Permutations4 :
              tetrahedron([i \in 1..4 |-> input.coords[p[i]]]) = ret

\* tetrahedron returned 1/3 for four pairwise distinct points (every
\* permutation of them moves some point).
C6_Witness ==
    /\ Called("tetrahedron")
    /\ Len(input.coords) = 4
    /\ \A i, j \in 1..4 : i # j => input.coords[i] # input.coords[j]
    /\ ret.status = "ok"
    /\ ret.value = Rat(1, 3)

\* C7: every value returned by tetrahedron, octahedron or cubic is >= 0.
C7_VolumeNonNegative ==
    ((Called("tetrahedron") \/ Called("octahedron") \/ Called("cubic"))
        /\ ret.status = "ok")
        => RLeq(Zero, ret.value)

\* cubic returned a positive volume for a map that has a degenerate triple
\* (one position twice).
C7_Witness ==
    /\ Called("cubic")
    /\ ret.status = "ok"
    /\ RLess(Zero, ret.value)
    /\ \E t \in DOMAIN input.sites_position :
          /\ Len(input.sites_position[t]) = 3
          /\ input.sites_position[t][1] = input.sites_position[t][2]

\* Four coordinates lie in one plane: two of them coincide, or all four
\* satisfy n . p = n . p_1 for a non-zero integer normal n.
Coplanar(c) ==
    \/ \E i, j \in 1..4 : i < j /\ c[i] = c[j]
    \/ \E n \in ((-2..2) \X (-2..2) \X (-2..2)) \ {<<0, 0, 0>>} :
          \A i \in 2..4 :
              n[1] * (c[i][1].num - c[1][1].num)
              + n[2] * (c[i][2].num - c[1][2].num)
              + n[3] * (c[i][3].num - c[1][3].num) = 0

\* C8: tetrahedron of 4 coordinates that lie in one plane (four points with
\* z = 0, collinear points, coinciding points) returns 0 and raises no error.
C8_CoplanarIsZero ==
    (Called("tetrahedron") /\ Len(input.coords) = 4 /\ IntegerCoords(input.coords)
        /\ Coplanar(input.coords))
        => (ret.status = "ok" /\ ret.value = Zero)

\* tetrahedron returned 0 for four pairwise distinct points with z = 0.
C8_Witness ==
    /\ Called("tetrahedron")
    /\ Len(input.coords) = 4
    /\ \A i, j \in 1..4 : i # j => input.coords[i] # input.coords[j]
    /\ \A i \in 1..4 : input.coords[i][3] = Zero
    /\ ret.status = "ok"
    /\ ret.value = Zero

InCanonicalRange(x) == RLess(RSub(Zero, Half), x) /\ RLeq(x, Half)

Listed(sites, n) == {IF sites[i] < 0 THEN n + sites[i] + 1 ELSE sites[i] + 1 : i \in DOMAIN sites}

====
